---- MODULE Spec2Model ----
(***************************************************************************)
(* A model of the UNO rules engine of unoagent: the card model, the deck   *)
(* factory, init_game, get_legal_actions, apply_action and the PlayerView  *)
(* projection, as they are written in src/unoagent/engine.                 *)
(*                                                                         *)
(* A GameState is a record with the dataclass's fields.  Python's None is  *)
(* the string "None".  Lists and tuples are sequences; the draw end of a   *)
(* pile (list.pop()) and the top of the discard pile (list[-1]) are the    *)
(* LAST element.                                                           *)
(***************************************************************************)
EXTENDS Integers, Sequences, FiniteSets, TLC

VARIABLES hands, discard_pile, draw_pile, current_player, direction,
          last_played_color, pending_draws, winner, player_order, history,
          last_call, runner

vars == <<hands, discard_pile, draw_pile, current_player, direction,
          last_played_color, pending_draws, winner, player_order, history,
          last_call, runner>>

(***************************************************************************)
(* Bounds of the model.                                                    *)
(***************************************************************************)
\* events of a game started by init_game
MaxTurns == 3
\* seeds 0..MaxSeed are tried by init_game
MaxSeed == 2
\* seeds 0..MaxDeckSeed are tried when init_game is looked at alone
MaxDeckSeed == 12
\* largest pending_draws of an input state
MaxPending == 2
\* cards in each hand of an input state
MaxHand == 2
\* cards on the discard pile of an input state
MaxDiscard == 3

(***************************************************************************)
(* card.py                                                                 *)
(***************************************************************************)
None == "None"

Color == <<"red", "blue", "green", "yellow">>

Colors == {Color[i] : i \in 1..Len(Color)}

WildValues == {"wild", "wild_draw_four"}

Card(color, value) == [color |-> color, value |-> value]

IsWild(card) == card.value \in WildValues

\* Card.__str__: the value alone for a wild, "<color>_<value>" otherwise
CardStr(card) ==
  IF card.color = None THEN <<card.value>> ELSE <<card.color, "_", card.value>>

(***************************************************************************)
(* Sequence helpers (Python list operations)                               *)
(***************************************************************************)
Last(s) == s[Len(s)]

Front(s) == SubSeq(s, 1, Len(s) - 1)

\* s with its i-th element removed: list.pop(i)
RemoveAt(s, i) == SubSeq(s, 1, i - 1) \o SubSeq(s, i + 1, Len(s))

\* the permutation of s that reads it from offset b with stride a; a must be
\* coprime to Len(s)
Permute(s, a, b) ==
  [i \in 1..Len(s) |-> s[((a * (i - 1) + b) % Len(s)) + 1]]

(***************************************************************************)
(* deck.py                                                                 *)
(***************************************************************************)
CARD_VALUES_STANDARD ==
  <<"0", "1", "2", "3", "4", "5", "6", "7", "8", "9",
    "skip", "reverse", "draw_two">>

\* ColorCards with one card of each value
ColorCardsOneEach(color) ==
  [k \in 1..Len(CARD_VALUES_STANDARD) |-> Card(color, CARD_VALUES_STANDARD[k])]

\* one "0", then two of each other standard value, for one color
ColorCards(color) ==
  [k \in 1..(2 * Len(CARD_VALUES_STANDARD) - 1) |->
     Card(color, IF k = 1 THEN "0" ELSE CARD_VALUES_STANDARD[(k \div 2) + 1])]

\* WildCards appending a wild twice in each pass
WildCardsOnlyWild == [k \in 1..8 |-> Card(None, "wild")]

\* range(4) times: a wild, then a wild_draw_four
WildCards ==
  [k \in 1..8 |-> Card(None, IF k % 2 = 1 THEN "wild" ELSE "wild_draw_four")]

\* the list create_deck builds before it shuffles
UnshuffledDeck ==
  ColorCards(Color[1]) \o ColorCards(Color[2]) \o ColorCards(Color[3])
    \o ColorCards(Color[4]) \o WildCards

\* strides coprime to 108, one per seed
SeedStride == <<1, 5, 7, 11, 13, 17, 19, 23, 25, 29, 31, 35>>

\* random.Random(seed).shuffle(cards): a permutation fixed by the seed
SeededShuffle(cards, seed) ==
  Permute(cards, SeedStride[(seed % Len(SeedStride)) + 1], (41 * seed) % Len(cards))

create_deck(seed) == SeededShuffle(UnshuffledDeck, seed)

\* random.shuffle(draw) of a reshuffle is unseeded: any permutation may come
\* out; the model explores the rotations of the list and of its reverse
\* (every permutation, for up to 3 cards)
Shuffles(s) ==
  IF Len(s) <= 1 THEN {s}
  ELSE {Permute(s, a, b) : a \in {1, Len(s) - 1}, b \in 0..(Len(s) - 1)}

\* the seed argument left out (seed=None); the seeds are 0, 1, ...
NoSeed == -1

\* CreateDecks shuffling with the module's generator whatever the seed
CreateDecksUnseeded(seed) == Shuffles(UnshuffledDeck)

\* every list create_deck(seed) can return: the one list of the seed's own
\* generator, or without a seed any outcome of random.shuffle
CreateDecks(seed) ==
  IF seed # NoSeed THEN {SeededShuffle(UnshuffledDeck, seed)}
  ELSE Shuffles(UnshuffledDeck)

(***************************************************************************)
(* game_state.py                                                           *)
(***************************************************************************)
GameState(h, discard, draw, current, dir, color, pending, win, order, hist) ==
  [hands |-> h, discard_pile |-> discard, draw_pile |-> draw,
   current_player |-> current, direction |-> dir,
   last_played_color |-> color, pending_draws |-> pending, winner |-> win,
   player_order |-> order, history |-> hist]

top_discard(state) ==
  IF state.discard_pile # <<>> THEN Last(state.discard_pile)
  ELSE Card(None, None)

HasTop(state) == state.discard_pile # <<>>

(***************************************************************************)
(* rules.py: init_game                                                     *)
(***************************************************************************)
\* the deal loop: step k = 0, 1, ... of 7 * len(player_ids) gives player
\* player_ids[k mod n] the card then at the draw end, while the deck has one.
\* A hand is the cards of that player's steps, in step order
\* a deal of seven cards in a row to each player
DealInARow(player_ids, deck) ==
  LET n == Len(player_ids)
      given == IF 7 * n <= Len(deck) THEN 7 * n ELSE Len(deck)
      Count(i) == IF 7 * i <= given THEN 7
                  ELSE IF 7 * (i - 1) < given THEN given - 7 * (i - 1) ELSE 0
  IN  [hands |-> [pid \in {player_ids[i] : i \in 1..n} |->
                    LET i == CHOOSE x \in 1..n : player_ids[x] = pid
                    IN  [j \in 1..Count(i) |-> deck[Len(deck) - (7 * (i - 1) + j - 1)]]],
       deck |-> SubSeq(deck, 1, Len(deck) - given)]

Deal(player_ids, deck) ==
  LET n == Len(player_ids)
      given == IF 7 * n <= Len(deck) THEN 7 * n ELSE Len(deck)
      steps == [k \in 1..given |-> k - 1]
      StepsOf(pid) == SelectSeq(steps, LAMBDA k : player_ids[(k % n) + 1] = pid)
  IN  [hands |-> [pid \in {player_ids[i] : i \in 1..n} |->
                    [j \in 1..Len(StepsOf(pid)) |->
                       deck[Len(deck) - StepsOf(pid)[j]]]],
       deck |-> SubSeq(deck, 1, Len(deck) - given)]

\* FirstCard taking the card at the draw end whatever it is
FirstCardAnyCard(deck, wilds) ==
  IF deck = <<>> THEN [first_card |-> Card(None, None), found |-> FALSE,
                       deck |-> deck, wilds |-> wilds]
  ELSE [first_card |-> Last(deck), found |-> TRUE,
        deck |-> Front(deck), wilds |-> wilds]

RECURSIVE FirstCard(_, _)
\* the search for the first non-wild card; wilds met on the way are kept
FirstCard(deck, wilds) ==
  IF deck = <<>> THEN [first_card |-> Card(None, None), found |-> FALSE,
                       deck |-> deck, wilds |-> wilds]
  ELSE IF IsWild(Last(deck)) THEN FirstCard(Front(deck), Append(wilds, Last(deck)))
  ELSE [first_card |-> Last(deck), found |-> TRUE,
        deck |-> Front(deck), wilds |-> wilds]

\* init_game after "deck = create_deck(seed=seed)": the deal, the first
\* card, the state
StartGame(player_ids, cards) ==
  LET dealt == Deal(player_ids, cards)
      f == FirstCard(dealt.deck, <<>>)
      deck == f.deck \o f.wilds
      discard == IF f.found THEN <<f.first_card>>
                 ELSE IF deck # <<>> THEN <<Last(deck)>> ELSE <<>>
      draw == IF ~f.found /\ deck # <<>> THEN Front(deck) ELSE deck
      last_color == IF discard # <<>> /\ Last(discard).color # None
                    THEN Last(discard).color ELSE Color[1]
  IN  GameState(dealt.hands, discard, draw, player_ids[1], 1, last_color, 0,
                None, player_ids, <<>>)

init_game(player_ids, seed) == StartGame(player_ids, create_deck(seed))

(***************************************************************************)
(* rules.py: actions, legal actions                                        *)
(***************************************************************************)
PlayCard(card, chosen_color) ==
  [type |-> "PlayCard", card |-> card, chosen_color |-> chosen_color]

DrawCard == [type |-> "DrawCard", card |-> Card(None, None), chosen_color |-> None]

_effective_color(state) ==
  LET top == top_discard(state)
  IN  IF ~HasTop(state) THEN "ValueError: No card on discard pile"
      ELSE IF top.color # None THEN top.color
      ELSE IF state.last_played_color # None THEN state.last_played_color
      ELSE Color[1]

\* _card_matches without the match by value
CardMatchesColorOnly(card, state) ==
  IF ~HasTop(state) THEN FALSE
  ELSE IF IsWild(card) THEN TRUE
  ELSE card.color = _effective_color(state)

_card_matches(card, state) ==
  LET top == top_discard(state)
  IN  IF ~HasTop(state) THEN FALSE
      ELSE IF IsWild(card) THEN TRUE
      ELSE IF card.color = _effective_color(state) THEN TRUE
      ELSE IF card.value = top.value THEN TRUE
      ELSE FALSE

\* CardActions giving a wild one action, with the first color
CardActionsOneColor(card) ==
  IF IsWild(card) THEN <<PlayCard(card, Color[1])>> ELSE <<PlayCard(card, None)>>

\* CardActions leaving a wild unresolved: one PlayCard without chosen_color
CardActionsUnresolved(card) == <<PlayCard(card, None)>>

\* the actions one card contributes: one PlayCard per color for a wild
CardActions(card) ==
  IF IsWild(card) THEN [i \in 1..Len(Color) |-> PlayCard(card, Color[i])]
  ELSE <<PlayCard(card, None)>>

RECURSIVE PlayActions(_)
\* the loop over the cards: each card's actions, in hand order
PlayActions(cards) ==
  IF cards = <<>> THEN <<>>
  ELSE CardActions(cards[1]) \o PlayActions(Tail(cards))

\* state.hands.get(player_id, [])
HandOf(state, player_id) ==
  IF player_id \in DOMAIN state.hands THEN state.hands[player_id] ELSE <<>>

\* get_legal_actions without the pending_draws branch
GetLegalActionsIgnoresPending(state, player_id) ==
  IF state.winner # None THEN <<>>
  ELSE IF state.current_player # player_id THEN <<>>
  ELSE IF ~HasTop(state)
       THEN Append(PlayActions(HandOf(state, player_id)), DrawCard)
  ELSE Append(PlayActions(SelectSeq(HandOf(state, player_id),
                                    LAMBDA c : _card_matches(c, state))),
              DrawCard)

\* get_legal_actions offering DrawCard only when nothing can be played
GetLegalActionsDrawAsFallback(state, player_id) ==
  IF state.winner # None THEN <<>>
  ELSE IF state.current_player # player_id THEN <<>>
  ELSE IF state.pending_draws > 0 THEN <<DrawCard>>
  ELSE LET cards == IF ~HasTop(state) THEN HandOf(state, player_id)
                    ELSE SelectSeq(HandOf(state, player_id),
                                   LAMBDA c : _card_matches(c, state))
       IN  IF cards = <<>> THEN <<DrawCard>> ELSE PlayActions(cards)

get_legal_actions(state, player_id) ==
  IF state.winner # None THEN <<>>
  ELSE IF state.current_player # player_id THEN <<>>
  ELSE IF state.pending_draws > 0 THEN <<DrawCard>>
  ELSE IF ~HasTop(state)
       THEN Append(PlayActions(HandOf(state, player_id)), DrawCard)
  ELSE LET playable == SelectSeq(HandOf(state, player_id),
                                 LAMBDA c : _card_matches(c, state))
       IN  Append(PlayActions(playable), DrawCard)

(***************************************************************************)
(* rules.py: apply_action                                                  *)
(***************************************************************************)
\* one history line: who, what, the card's text, the chosen color, a count
HistoryEntry(player_id, event, card, chosen, count) ==
  [player |-> player_id, event |-> event, card |-> card, chosen |-> chosen,
   count |-> count]

\* the number of cards in the hands of a dict
CardsInHandsOf(h) ==
  Cardinality(UNION {{<<pid, i>> : i \in 1..Len(h[pid])} : pid \in DOMAIN h})

\* tuple.index(x), 0-based; x is in the tuple
IndexOf(order, x) == (CHOOSE i \in 1..Len(order) : order[i] = x
                        /\ \A j \in 1..(i - 1) : order[j] # x) - 1

\* order[i] for a 0-based i
At(order, i) == order[i + 1]

\* NextPlayer going clockwise whatever the direction
NextPlayerClockwise(state) ==
  At(state.player_order,
     (IndexOf(state.player_order, state.current_player) + 1)
       % Len(state.player_order))

\* idx = order.index(current); order[(idx + direction) % len(order)]
NextPlayer(state) ==
  At(state.player_order,
     (IndexOf(state.player_order, state.current_player) + state.direction)
       % Len(state.player_order))

\* LastColor taking chosen_color for every card
LastColorChosenOnly(play) == play.chosen_color

\* LastColor preferring chosen_color to the card's own color
LastColorChosenFirst(play) ==
  IF play.chosen_color # None THEN play.chosen_color ELSE play.card.color

\* play.card.color if play.card.color is not None else play.chosen_color
LastColor(play) ==
  IF play.card.color # None THEN play.card.color ELSE play.chosen_color

\* what a call returns: a new state, or the exception it raised (the caller
\* then still holds the state it passed)
Returned(state) == [raised |-> None, state |-> state]

Raised(error, state) == [raised |-> error, state |-> state]

\* Reshuffle without "discard = [top]": the reshuffled cards stay on the
\* discard pile too
ReshuffleKeepsDiscard(draw, discard) ==
  IF draw = <<>> /\ discard # <<>>
  THEN {[draw |-> d, discard |-> discard] : d \in Shuffles(Front(discard))}
  ELSE {[draw |-> draw, discard |-> discard]}

\* Reshuffle that shuffles the whole discard pile, its top card too, into the
\* draw pile
ReshuffleTakesTop(draw, discard) ==
  IF draw = <<>> /\ discard # <<>>
  THEN {[draw |-> d, discard |-> <<>>] : d \in Shuffles(discard)}
  ELSE {[draw |-> draw, discard |-> discard]}

\* Reshuffle that puts the top card under the new draw pile and leaves the
\* discard pile empty
ReshuffleBuriesTop(draw, discard) ==
  IF draw = <<>> /\ discard # <<>>
  THEN {[draw |-> <<Last(discard)>> \o d, discard |-> <<>>] :
          d \in Shuffles(Front(discard))}
  ELSE {[draw |-> draw, discard |-> discard]}

\* "if not draw and discard": the discard pile, all but its top, is shuffled
\* into the draw pile.  Every outcome of the shuffle
Reshuffle(draw, discard) ==
  IF draw = <<>> /\ discard # <<>>
  THEN {[draw |-> d, discard |-> <<Last(discard)>>] : d \in Shuffles(Front(discard))}
  ELSE {[draw |-> draw, discard |-> discard]}

RECURSIVE DrawLoop(_, _, _, _)
\* k times: reshuffle if the draw pile is empty, then take one card from the
\* draw end if there is one.  The result is every outcome: the piles and
\* the cards taken, in order
DrawLoop(k, draw, discard, got) ==
  IF k = 0 THEN {[draw |-> draw, discard |-> discard, got |-> got]}
  ELSE UNION {IF pl.draw # <<>>
              THEN DrawLoop(k - 1, Front(pl.draw), pl.discard,
                            Append(got, Last(pl.draw)))
              ELSE DrawLoop(k - 1, pl.draw, pl.discard, got) :
                pl \in Reshuffle(draw, discard)}

\* hands[player_id] = hands[player_id] + [card], for each card taken
GiveCards(h, player_id, got) ==
  IF got = <<>> THEN h ELSE [h EXCEPT ![player_id] = @ \o got]

\* ApplyDrawCard that builds the new state with the input's history: the
\* entry for the draw is lost
ApplyDrawCardNoLog(state, player_id) ==
  LET pending == state.pending_draws
      Result(r) ==
        IF player_id \notin DOMAIN state.hands /\ (r.got # <<>> \/ pending > 0)
        THEN Raised("KeyError", state)
        ELSE Returned(GameState(
               GiveCards(state.hands, player_id, r.got), r.discard, r.draw,
               NextPlayer(state), state.direction, state.last_played_color,
               IF pending > 0 THEN 0 ELSE pending, None, state.player_order,
               state.history))
  IN  {Result(r) : r \in DrawLoop(IF pending > 0 THEN pending ELSE 1,
                                  state.draw_pile, state.discard_pile, <<>>)}

\* the DrawCard branch: pending_draws cards if any are pending, else one
ApplyDrawCard(state, player_id) ==
  LET order == state.player_order
      pending == state.pending_draws
      next == NextPlayer(state)
      Result(r) ==
        IF player_id \notin DOMAIN state.hands /\ (r.got # <<>> \/ pending > 0)
        THEN Raised("KeyError", state)
        ELSE Returned(GameState(
               GiveCards(state.hands, player_id, r.got), r.discard, r.draw,
               next, state.direction, state.last_played_color,
               IF pending > 0 THEN 0 ELSE pending, None, order,
               Append(state.history,
                      IF pending > 0
                      THEN HistoryEntry(player_id, "drew cards (penalty)", <<>>,
                                        None, Len(r.got))
                      ELSE HistoryEntry(player_id, "drew a card", <<>>, None, 1))))
  IN  {Result(r) : r \in DrawLoop(IF pending > 0 THEN pending ELSE 1,
                                  state.draw_pile, state.discard_pile, <<>>)}

\* the position of the first card of the hand with the color and the value
\* of the played card, 0 when there is none
FindCard(hand, card) ==
  IF \E i \in 1..Len(hand) : hand[i].color = card.color /\ hand[i].value = card.value
  THEN CHOOSE i \in 1..Len(hand) :
         /\ hand[i].color = card.color /\ hand[i].value = card.value
         /\ \A j \in 1..(i - 1) :
              ~(hand[j].color = card.color /\ hand[j].value = card.value)
  ELSE 0

\* WinState that also passes the turn on
WinStateAdvancesTurn(state, player_id, play, h, discard, last_color) ==
  GameState(h, discard, state.draw_pile,
            At(state.player_order,
               (IndexOf(state.player_order, state.current_player) + state.direction)
                 % Len(state.player_order)),
            state.direction, last_color, state.pending_draws, player_id,
            state.player_order,
            Append(state.history,
                   HistoryEntry(player_id, "played and WON!", CardStr(play.card),
                                None, 0)))

\* the state a winning play returns
WinState(state, player_id, play, h, discard, last_color) ==
  GameState(h, discard, state.draw_pile, state.current_player, state.direction,
            last_color, state.pending_draws, player_id, state.player_order,
            Append(state.history,
                   HistoryEntry(player_id, "played and WON!", CardStr(play.card),
                                None, 0)))

\* CardEffect with one of its branches changed: "skip" steps once only,
\* "reverse" steps in the old direction, "forced" leaves the turn to the
\* player who drew, "pending" leaves the cards to draw as pending_draws of
\* the next player
CardEffectChanged(state, play, h, discard, last_color, hist, branch) ==
  LET order == state.player_order
      n == Len(order)
      dir == state.direction
      idx == IndexOf(order, state.current_player)
      next_idx == (idx + dir) % n
      Plain(next, d) ==
        {Returned(GameState(h, discard, state.draw_pile, At(order, next), d,
                            last_color,
                            state.pending_draws, None, order, hist))}
      Forced(count) ==
        {Returned(GameState(GiveCards(h, At(order, next_idx), r.got), r.discard,
                            r.draw,
                            At(order, IF branch = "forced" THEN next_idx
                                      ELSE (next_idx + dir) % n),
                            dir, last_color,
                            state.pending_draws, None, order, hist)) :
           r \in DrawLoop(count, state.draw_pile, discard, <<>>)}
      Pending(count) ==
        {Returned(GameState(h, discard, state.draw_pile, At(order, next_idx), dir,
                            last_color, count, None, order, hist))}
  IN  IF play.card.value = "skip"
      THEN Plain(IF branch = "skip" THEN next_idx ELSE (next_idx + dir) % n, dir)
      ELSE IF play.card.value = "reverse"
      THEN Plain(IF branch = "reverse" THEN next_idx ELSE (idx + (-dir)) % n, -dir)
      ELSE IF play.card.value = "draw_two"
      THEN IF branch = "pending" THEN Pending(2) ELSE Forced(2)
      ELSE IF play.card.value = "wild_draw_four"
      THEN IF branch = "pending" THEN Pending(4) ELSE Forced(4)
      ELSE Plain(next_idx, dir)

\* CardEffect where a skip passes the turn like any other card
CardEffectSkipAsPlain(state, play, h, discard, last_color, hist) ==
  CardEffectChanged(state, play, h, discard, last_color, hist, "skip")

\* CardEffect where a reverse flips the direction after the next player was
\* computed
CardEffectReverseOldStep(state, play, h, discard, last_color, hist) ==
  CardEffectChanged(state, play, h, discard, last_color, hist, "reverse")

\* CardEffect where the player who drew two or four cards gets the turn
CardEffectForcedNoSkip(state, play, h, discard, last_color, hist) ==
  CardEffectChanged(state, play, h, discard, last_color, hist, "forced")

\* CardEffect where a draw_two or wild_draw_four sets pending_draws for the
\* next player
CardEffectSetsPending(state, play, h, discard, last_color, hist) ==
  CardEffectChanged(state, play, h, discard, last_color, hist, "pending")

\* the special cards: who acts next, the direction, and who draws how many
CardEffect(state, play, h, discard, last_color, hist) ==
  LET order == state.player_order
      n == Len(order)
      dir == state.direction
      idx == IndexOf(order, state.current_player)
      next_idx == (idx + dir) % n
      Plain(next, d) ==
        {Returned(GameState(h, discard, state.draw_pile, At(order, next), d,
                            last_color,
                            state.pending_draws, None, order, hist))}
      Forced(count) ==
        {Returned(GameState(GiveCards(h, At(order, next_idx), r.got), r.discard,
                            r.draw, At(order, (next_idx + dir) % n), dir,
                            last_color,
                            state.pending_draws, None, order, hist)) :
           r \in DrawLoop(count, state.draw_pile, discard, <<>>)}
  IN  IF play.card.value = "skip" THEN Plain((next_idx + dir) % n, dir)
      ELSE IF play.card.value = "reverse" THEN Plain((idx + (-dir)) % n, -dir)
      ELSE IF play.card.value = "draw_two" THEN Forced(2)
      ELSE IF play.card.value = "wild_draw_four" THEN Forced(4)
      ELSE Plain(next_idx, dir)

\* ApplyPlayCard without the check that a wild comes with a chosen_color
ApplyPlayCardNoWildCheck(state, player_id, play) ==
  IF player_id \notin DOMAIN state.hands THEN {Raised("KeyError", state)}
  ELSE LET hand == state.hands[player_id]
           i == FindCard(hand, play.card)
           h == [state.hands EXCEPT ![player_id] = RemoveAt(hand, i)]
           discard == Append(state.discard_pile, play.card)
           last_color == LastColor(play)
       IN  IF i = 0 THEN {Raised("ValueError: Card not in hand", state)}
           ELSE IF Len(h[player_id]) = 0
           THEN {Returned(WinState(state, player_id, play, h, discard, last_color))}
           ELSE CardEffect(state, play, h, discard, last_color,
                           Append(state.history,
                                  HistoryEntry(player_id, "played",
                                               CardStr(play.card),
                                               play.chosen_color, 0)))

\* ApplyPlayCard without the check for a win
ApplyPlayCardNoWin(state, player_id, play) ==
  IF play.chosen_color = None /\ IsWild(play.card)
  THEN {Raised("ValueError: Wild card requires chosen_color", state)}
  ELSE IF player_id \notin DOMAIN state.hands THEN {Raised("KeyError", state)}
  ELSE LET hand == state.hands[player_id]
           i == FindCard(hand, play.card)
           h == [state.hands EXCEPT ![player_id] = RemoveAt(hand, i)]
           discard == Append(state.discard_pile, play.card)
           last_color == LastColor(play)
       IN  IF i = 0 THEN {Raised("ValueError: Card not in hand", state)}
           ELSE CardEffect(state, play, h, discard, last_color,
                           Append(state.history,
                                  HistoryEntry(player_id, "played",
                                               CardStr(play.card),
                                               play.chosen_color, 0)))

\* the PlayCard branch
ApplyPlayCard(state, player_id, play) ==
  IF play.chosen_color = None /\ IsWild(play.card)
  THEN {Raised("ValueError: Wild card requires chosen_color", state)}
  ELSE IF player_id \notin DOMAIN state.hands THEN {Raised("KeyError", state)}
  ELSE LET hand == state.hands[player_id]
           i == FindCard(hand, play.card)
           h == [state.hands EXCEPT ![player_id] = RemoveAt(hand, i)]
           discard == Append(state.discard_pile, play.card)
           last_color == LastColor(play)
       IN  IF i = 0 THEN {Raised("ValueError: Card not in hand", state)}
           ELSE IF Len(h[player_id]) = 0
           THEN {Returned(WinState(state, player_id, play, h, discard, last_color))}
           ELSE CardEffect(state, play, h, discard, last_color,
                           Append(state.history,
                                  HistoryEntry(player_id, "played",
                                               CardStr(play.card),
                                               play.chosen_color, 0)))

\* apply_action without the check for a winner
ApplyActionNoWinnerCheck(state, player_id, action) ==
  IF action.type = "DrawCard" THEN ApplyDrawCard(state, player_id)
  ELSE ApplyPlayCard(state, player_id, action)

\* every outcome of apply_action(state, player_id, action)
apply_action(state, player_id, action) ==
  IF state.winner # None THEN {Returned(state)}
  ELSE IF action.type = "DrawCard" THEN ApplyDrawCard(state, player_id)
  ELSE ApplyPlayCard(state, player_id, action)

(***************************************************************************)
(* rules.py: apply_action and the objects of its input state.  A GameState *)
(* is frozen, but its hands dict and its lists can be changed in place; a  *)
(* local of apply_action is either a new object or the input's own        *)
(***************************************************************************)
\* FreshLocals where draw is the input's own list (draw = state.draw_pile)
FreshLocalsSharedDraw == {"hands", "discard", "hand", "grown"}

\* the locals that are new objects: hands = dict(state.hands), discard =
\* list(state.discard_pile), draw = list(state.draw_pile), hand =
\* list(hands[player_id]), and the hand a drawn card is added to, which is
\* built by hands[p] + [card] ("grown")
FreshLocals == {"hands", "discard", "draw", "hand", "grown"}

\* The input state as the call that had outcome out leaves it: what
\* hands[p] = ..., hand.pop(i), discard.append(card) and draw.pop() did to
\* objects that are the input's own.  A local that was bound anew (draw and
\* discard at a reshuffle) is no longer the input's
InputAfter(state, player_id, action, out) ==
  IF state.winner # None \/ out.raised # None THEN state
  ELSE
    LET played == action.type = "PlayCard"
        taken == CardsInHandsOf(out.state.hands) - CardsInHandsOf(state.hands)
                   + (IF played THEN 1 ELSE 0)
        len == Len(state.draw_pile)
        ListOf(q) ==
          IF played /\ q = player_id
          THEN IF "hand" \in FreshLocals THEN state.hands[q]
               ELSE IF "grown" \in FreshLocals
               THEN RemoveAt(state.hands[q], FindCard(state.hands[q], action.card))
               ELSE out.state.hands[q]
          ELSE IF "grown" \in FreshLocals THEN state.hands[q]
               ELSE out.state.hands[q]
    IN  [state EXCEPT
           !.hands = IF "hands" \in FreshLocals
                     THEN [q \in DOMAIN state.hands |-> ListOf(q)]
                     ELSE out.state.hands,
           !.discard_pile = IF "discard" \in FreshLocals \/ ~played
                            THEN state.discard_pile
                            ELSE Append(state.discard_pile, action.card),
           !.draw_pile = IF "draw" \in FreshLocals THEN state.draw_pile
                         ELSE SubSeq(state.draw_pile, 1,
                                     IF taken <= len THEN len - taken ELSE 0)]

(***************************************************************************)
(* game_state.py: PlayerView                                               *)
(***************************************************************************)
\* the number of history entries a view shows
HistoryWindow == 10

\* a window on the oldest entries of the history
RecentHistoryOldest(hist) ==
  SubSeq(hist, 1, IF Len(hist) > HistoryWindow THEN HistoryWindow ELSE Len(hist))

\* state.history[-10:]
RecentHistory(hist) ==
  SubSeq(hist, IF Len(hist) > HistoryWindow THEN Len(hist) - HistoryWindow + 1 ELSE 1,
         Len(hist))

\* from_state giving the hands themselves where it should give their sizes
FromStateLeaksHands(state, player_id) ==
  [my_hand |-> HandOf(state, player_id),
   discard_pile |-> state.discard_pile,
   top_discard |-> top_discard(state),
   current_player |-> state.current_player,
   direction |-> state.direction,
   last_played_color |-> state.last_played_color,
   pending_draws |-> state.pending_draws,
   winner |-> state.winner,
   player_order |-> state.player_order,
   num_cards_per_player |-> state.hands,
   history |-> RecentHistory(state.history)]

\* PlayerView.from_state(state, player_id)
from_state(state, player_id) ==
  [my_hand |-> HandOf(state, player_id),
   discard_pile |-> state.discard_pile,
   top_discard |-> top_discard(state),
   current_player |-> state.current_player,
   direction |-> state.direction,
   last_played_color |-> state.last_played_color,
   pending_draws |-> state.pending_draws,
   winner |-> state.winner,
   player_order |-> state.player_order,
   num_cards_per_player |-> [pid \in DOMAIN state.hands |-> Len(state.hands[pid])],
   history |-> RecentHistory(state.history)]

(***************************************************************************)
(* The game: the state a caller holds, and the calls it makes              *)
(***************************************************************************)
\* the GameState the variables hold
State ==
  GameState(hands, discard_pile, draw_pile, current_player, direction,
            last_played_color, pending_draws, winner, player_order, history)

\* the caller replaces its state by the one returned
SetState(state) ==
  /\ hands' = state.hands
  /\ discard_pile' = state.discard_pile
  /\ draw_pile' = state.draw_pile
  /\ current_player' = state.current_player
  /\ direction' = state.direction
  /\ last_played_color' = state.last_played_color
  /\ pending_draws' = state.pending_draws
  /\ winner' = state.winner
  /\ player_order' = state.player_order
  /\ history' = state.history

\* the variables hold the given state
SetInput(state) ==
  /\ hands = state.hands
  /\ discard_pile = state.discard_pile
  /\ draw_pile = state.draw_pile
  /\ current_player = state.current_player
  /\ direction = state.direction
  /\ last_played_color = state.last_played_color
  /\ pending_draws = state.pending_draws
  /\ winner = state.winner
  /\ player_order = state.player_order
  /\ history = state.history

PlayerIds ==
  <<"p1", "p2", "p3", "p4", "p5", "p6", "p7", "p8", "p9", "p10",
     "p11", "p12", "p13", "p14", "p15", "p16", "p17", "p18", "p19",
     "p20", "p21", "p22", "p23", "p24", "p25", "p26", "p27", "p28",
     "p29", "p30", "p31", "p32", "p33", "p34", "p35", "p36", "p37",
     "p38", "p39", "p40", "p41", "p42", "p43", "p44", "p45", "p46",
     "p47", "p48", "p49", "p50", "p51", "p52", "p53", "p54">>

\* a player id no game knows
Outsider == "px"

\* the player lists init_game is called with: n distinct ids
PlayerCounts == {1, 2, 3, 15, 16, 54}

Players(n) == SubSeq(PlayerIds, 1, n)

Seeds == 0..MaxSeed

\* no call was made yet
NoCall == [player |-> None, action |-> DrawCard, raised |-> None, legal |-> FALSE]

\* the locals of GameRunner.run when the loop starts: num_turns = 0, nothing
\* returned.  calls counts the calls of the first player's agent, answered
\* tells what the last get_action returned ("None" or "action"), done that
\* run is over, raised the exception that ended it, winner the result's winner
NoRun == [num_turns |-> 0, calls |-> 0, answered |-> "", done |-> FALSE,
          raised |-> None, winner |-> None]

Init ==
  \E n \in PlayerCounts, seed \in Seeds :
    /\ SetInput(init_game(Players(n), seed))
    /\ last_call = NoCall
    /\ runner = NoRun

\* the elements of a sequence
Range(s) == {s[i] : i \in 1..Len(s)}

\* one call apply_action(State, player_id, action): the caller goes on with
\* the state returned, or keeps its state when the call raised
Call(player_id, action) ==
  \E out \in apply_action(State, player_id, action) :
    /\ SetState(out.state)
    /\ last_call' = [player |-> player_id, action |-> action,
                     raised |-> out.raised,
                     legal |-> action \in Range(get_legal_actions(State, player_id))]

\* the driver's step: an action of get_legal_actions, for the current player
LegalStep(ready) ==
  /\ ready
  /\ \E action \in Range(get_legal_actions(State, current_player)) :
       Call(current_player, action)
  /\ UNCHANGED runner

\* the players apply_action is called for: the one to act, the first of the
\* order, and one that is not in the game
CallerArgs == {current_player, player_order[1], Outsider}

\* the cards a PlayCard names: the first card of the caller's hand, whether
\* it matches or not, and one fixed card
CardArgs(player_id) ==
  LET hand == HandOf(State, player_id)
  IN  (IF hand = <<>> THEN {} ELSE {hand[1]}) \cup {Card(Color[2], "7")}

\* the chosen_color a PlayCard passes
ChosenArgs == {None, Color[2]}

\* any caller plays any card, legal or not
PlayCardCall(ready) ==
  /\ ready
  /\ \E player_id \in CallerArgs :
       \E card \in CardArgs(player_id), chosen \in ChosenArgs :
         Call(player_id, PlayCard(card, chosen))
  /\ UNCHANGED runner

\* any caller draws
DrawCardCall(ready) ==
  /\ ready
  /\ \E player_id \in CallerArgs : Call(player_id, DrawCard)
  /\ UNCHANGED runner

\* a game goes on until an exception ends it (no caller catches one), for at
\* most MaxTurns recorded events
GameReady == Len(history) < MaxTurns /\ last_call.raised = None

Next == LegalStep(GameReady) \/ PlayCardCall(GameReady) \/ DrawCardCall(GameReady)

Spec == Init /\ [][Next]_vars

\* only legal actions are ever applied
LegalNext == LegalStep(GameReady)

LegalSpec == Init /\ [][LegalNext]_vars

(***************************************************************************)
(* init_game as a function of the players and the seed: every number of   *)
(* players up to 16, more seeds, and the first turn of each game           *)
(***************************************************************************)
\* the seeds: all strides of the shuffle, and a seed (84) whose deck leaves
\* six wilds at the draw end after the deal to 14 players
DeckSeeds == (0..MaxDeckSeed) \cup {84}

\* the numbers of players
DealCounts == 1..16

InitGames ==
  \E n \in DealCounts, seed \in DeckSeeds :
    /\ SetInput(init_game(Players(n), seed))
    /\ last_call = NoCall
    /\ runner = NoRun

\* the first turn: one action of get_legal_actions for the first player
InitNext == LegalStep(last_call = NoCall)

InitSpec == InitGames /\ [][InitNext]_vars

(***************************************************************************)
(* init_game in two steps: the deck create_deck returned, with the hands   *)
(* still empty, then the state init_game returns; and the first turn       *)
(***************************************************************************)
\* init_game holds the deck of create_deck and has dealt nothing yet
DeckCreated == Len(draw_pile) = Len(UnshuffledDeck)

\* deck = create_deck(seed=seed); hands = {pid: [] for pid in player_ids},
\* for a seed or for none
DeckInit ==
  \E n \in DealCounts, seed \in DeckSeeds \cup {NoSeed} :
    \E cards \in CreateDecks(seed) :
      /\ SetInput(GameState([pid \in Range(Players(n)) |-> <<>>], <<>>, cards,
                            Players(n)[1], 1, None, 0, None, Players(n), <<>>))
      /\ last_call = NoCall
      /\ runner = NoRun

\* the rest of init_game
DealAndStart ==
  /\ DeckCreated
  /\ SetState(StartGame(player_order, draw_pile))
  /\ UNCHANGED <<last_call, runner>>

DeckNext == DealAndStart \/ LegalStep(~DeckCreated /\ last_call = NoCall)

DeckSpec == DeckInit /\ [][DeckNext]_vars

(***************************************************************************)
(* apply_action and get_legal_actions as functions of any GameState: the   *)
(* input states are built from a short list of cards, and each is given    *)
(* one call                                                                *)
(***************************************************************************)
\* the cards the input states are built from
FnCards ==
  <<Card("red", "5"), Card("red", "5"), Card("blue", "5"), Card("red", "skip"),
    Card("green", "reverse"), Card(None, "wild"), Card(None, "wild"),
    Card("blue", "draw_two"), Card(None, "wild_draw_four"), Card("green", "9")>>

\* cards i+1 .. i+k of FnCards read as a ring from offset r
FnSlice(r, i, k) == [j \in 1..k |-> FnCards[((r + i + j - 1) % Len(FnCards)) + 1]]

\* the sizes of the input states' draw piles
FnDrawSizes == {0, 2, 5}

\* an input state: every player holds hs cards, the discard pile ds, the draw
\* pile ws.  As in a game, a winner's hand is empty and the history tells the
\* win, and last_played_color is the top card's color unless the top is a
\* wild (then the color chosen for it) or missing (then red, as init_game
\* leaves it).  pending_draws above 0 is what no game reaches but what
\* get_legal_actions and apply_action have a branch for
FnState(n, r, hs, ds, ws, current, dir, color, pending, win) ==
  LET discard == FnSlice(r, n * hs, ds)
  IN  GameState([pid \in Range(Players(n)) |->
                   IF pid = win THEN <<>>
                   ELSE FnSlice(r, (IndexOf(Players(n), pid)) * hs, hs)],
                discard, FnSlice(r, n * hs + ds, ws), current, dir,
                IF discard = <<>> THEN Color[1]
                ELSE IF IsWild(Last(discard)) THEN color
                ELSE Last(discard).color,
                pending, win, Players(n),
                IF win = None THEN <<>>
                ELSE <<HistoryEntry(win, "played and WON!", CardStr(FnCards[1]),
                                    None, 0)>>)

\* the draw pile of a game is empty when its discard pile is
FnInit ==
  \E n \in 1..3, r \in 0..(Len(FnCards) - 1), hs \in 1..MaxHand,
     ds \in 0..MaxDiscard, ws \in FnDrawSizes, dir \in {1, -1},
     color \in {Color[2], Color[3]}, pending \in 0..MaxPending :
    \E current \in Range(Players(n)), win \in {None, Players(n)[1]} :
      /\ ds = 0 => ws = 0
      /\ SetInput(FnState(n, r, hs, ds, ws, current, dir, color, pending, win))
      /\ last_call = NoCall
      /\ runner = NoRun

\* the input state has not been given its call yet
FnReady == last_call = NoCall

FnNext == LegalStep(FnReady) \/ PlayCardCall(FnReady) \/ DrawCardCall(FnReady)

FnSpec == FnInit /\ [][FnNext]_vars

(***************************************************************************)
(* Properties                                                              *)
(***************************************************************************)
\* the number of cards in all hands
CardsInHands(h) ==
  Cardinality(UNION {{<<pid, i>> : i \in 1..Len(h[pid])} : pid \in DOMAIN h})

TotalCards == CardsInHands(hands) + Len(discard_pile) + Len(draw_pile)

\* C1: in every state reached from init_game by apply_action calls that
\* returned, the hands, the discard pile and the draw pile hold exactly 108
\* cards together.
CardConservation == TotalCards = 108

\* C1 witness: a card was played and the discard pile was since reshuffled
\* down to its top card, the draw pile being empty again.
CardConservationWitness ==
  /\ \E i \in 1..Len(history) : history[i].event = "played"
  /\ Len(discard_pile) = 1
  /\ draw_pile = <<>>
  /\ TotalCards = 108

\* the GameState the variables hold after the step
StateNext ==
  GameState(hands', discard_pile', draw_pile', current_player', direction',
            last_played_color', pending_draws', winner', player_order', history')

\* the ids a caller may pass: the players and one id outside the game
AnyPlayer == Range(player_order) \cup {Outsider}

\* C2: in a game where only actions of get_legal_actions are applied, every
\* action get_legal_actions offers the current player is applied without an
\* exception and returns a new state (one more history entry).
LegalActionsNeverRaise ==
  /\ last_call.raised = None
  /\ \A action \in Range(get_legal_actions(State, current_player)) :
       \A out \in apply_action(State, current_player, action) :
         /\ out.raised = None
         /\ Len(out.state.history) = Len(history) + 1

\* C2 witness: after two legal actions the player to act is offered a wild
\* and a colored card.
LegalActionsNeverRaiseWitness ==
  /\ Len(history) >= 2
  /\ last_call.legal
  /\ \E a, b \in Range(get_legal_actions(State, current_player)) :
       /\ a.type = "PlayCard" /\ IsWild(a.card)
       /\ b.type = "PlayCard" /\ ~IsWild(b.card)

\* C3: once winner is set, every apply_action call, whoever the player and
\* whatever the action, returns the same state and raises nothing, so no
\* field of the state changes again.
TerminalAbsorbing ==
  [][winner # None => (StateNext = State /\ last_call'.raised = None)]_vars

\* C3 witness: a terminal state was given a wild PlayCard without
\* chosen_color, and the call returned.
TerminalAbsorbingWitness ==
  /\ winner # None
  /\ last_call.player # None
  /\ last_call.action.type = "PlayCard"
  /\ IsWild(last_call.action.card)
  /\ last_call.action.chosen_color = None
  /\ last_call.raised = None

\* C4: a PlayCard that returns and takes the last card of the acting
\* player's hand sets winner to that player, leaves current_player,
\* direction and the draw pile as they were, changes no other hand, and
\* get_legal_actions of the new state is empty for every player.
WinDetection ==
  [][LET p == last_call'.player
         a == last_call'.action
     IN  (/\ winner = None
          /\ a.type = "PlayCard"
          /\ last_call'.raised = None
          /\ p \in DOMAIN hands
          /\ Len(hands[p]) = 1)
         => (/\ winner' = p
             /\ hands'[p] = <<>>
             /\ current_player' = current_player
             /\ direction' = direction
             /\ draw_pile' = draw_pile
             /\ \A q \in DOMAIN hands \ {p} : hands'[q] = hands[q]
             /\ \A q \in AnyPlayer : get_legal_actions(StateNext, q) = <<>>)]_vars

\* C4 witness: a player has just won by playing a wild_draw_four.
WinDetectionWitness ==
  /\ winner # None
  /\ last_call.player = winner
  /\ last_call.action.type = "PlayCard"
  /\ last_call.action.card.value = "wild_draw_four"
  /\ history # <<>>
  /\ Last(history).card = <<"wild_draw_four">>
  /\ hands[winner] = <<>>
  /\ draw_pile # <<>>

\* C5: get_legal_actions(state, p) is empty exactly when the game has a
\* winner or p is not the current player, and when it is not empty it
\* holds a DrawCard.
LegalActionsEmptiness ==
  \A p \in AnyPlayer :
    LET legal == get_legal_actions(State, p)
    IN  /\ (legal = <<>>) <=> (winner # None \/ p # current_player)
        /\ legal # <<>> => DrawCard \in Range(legal)

\* C5 witness: no card of the current player can be played, and DrawCard is
\* the one legal action; in another hand of the same state a card could.
LegalActionsEmptinessWitness ==
  /\ winner = None
  /\ pending_draws = 0
  /\ discard_pile # <<>>
  /\ hands[current_player] # <<>>
  /\ get_legal_actions(State, current_player) = <<DrawCard>>
  /\ \E q \in DOMAIN hands :
       \E i \in 1..Len(hands[q]) : _card_matches(hands[q][i], State)

\* the cards the PlayCard actions of a sequence of actions name
PlayedCards(actions) ==
  {actions[i].card : i \in {j \in 1..Len(actions) : actions[j].type = "PlayCard"}}

\* how many PlayCard actions of a sequence name a card of value v with
\* chosen_color c
CountPlays(actions, v, c) ==
  Cardinality({i \in 1..Len(actions) :
                 /\ actions[i].type = "PlayCard"
                 /\ actions[i].card.value = v
                 /\ actions[i].chosen_color = c})

\* how many cards of a hand have value v
CountValue(hand, v) == Cardinality({i \in 1..Len(hand) : hand[i].value = v})

\* C6: in a state with no winner, pending_draws = 0 and a card on the discard
\* pile, the cards named by the PlayCard actions of
\* get_legal_actions(state, current_player) are exactly the cards of that
\* player's hand that are wild, or have the effective color (the top card's
\* own color, or last_played_color when the top card is a wild), or have the
\* top card's value.
Playability ==
  (winner = None /\ pending_draws = 0 /\ discard_pile # <<>>) =>
    LET top == Last(discard_pile)
        eff == IF top.color # None THEN top.color ELSE last_played_color
        hand == hands[current_player]
    IN  PlayedCards(get_legal_actions(State, current_player))
          = {hand[i] : i \in {j \in 1..Len(hand) :
                                \/ hand[j].value \in {"wild", "wild_draw_four"}
                                \/ hand[j].color = eff
                                \/ hand[j].value = top.value}}

\* C6 witness: the top card is a wild; of the two cards of the hand one has
\* the color chosen for it and is offered, the other is not offered.
PlayabilityWitness ==
  /\ winner = None /\ pending_draws = 0 /\ discard_pile # <<>>
  /\ IsWild(Last(discard_pile))
  /\ \E c, d \in Range(hands[current_player]) :
       /\ c.color = last_played_color
       /\ c \in PlayedCards(get_legal_actions(State, current_player))
       /\ d \notin PlayedCards(get_legal_actions(State, current_player))

\* C7: every PlayCard of get_legal_actions has a chosen_color exactly when
\* its card is a wild, and each wild of the hand that can be played gives
\* exactly four PlayCard actions, one per color.
WildsFullySpecified ==
  LET legal == get_legal_actions(State, current_player)
      hand == hands[current_player]
      canPlay == winner = None /\ pending_draws = 0
  IN  /\ \A a \in Range(legal) :
           a.type = "PlayCard" =>
             /\ (a.chosen_color # None) <=> (a.card.value \in {"wild", "wild_draw_four"})
             /\ a.chosen_color \in {None, "red", "blue", "green", "yellow"}
      /\ \A v \in {"wild", "wild_draw_four"} :
           \A c \in {"red", "blue", "green", "yellow"} :
             CountPlays(legal, v, c) = IF canPlay THEN CountValue(hand, v) ELSE 0

\* C7 witness: the player to act holds two wilds and is offered eight
\* PlayCard actions for them.
WildsFullySpecifiedWitness ==
  /\ winner = None /\ pending_draws = 0
  /\ CountValue(hands[current_player], "wild") = 2
  /\ \A c \in Colors :
       CountPlays(get_legal_actions(State, current_player), "wild", c) = 2

\* C8: in a state with no winner and pending_draws > 0, the legal actions of
\* the current player are the one DrawCard, whatever the hand.
PendingDrawsOnlyDraw ==
  (winner = None /\ pending_draws > 0) =>
    get_legal_actions(State, current_player) = <<DrawCard>>

\* C8 witness: draws are pending and the player to act holds a wild.
PendingDrawsOnlyDrawWitness ==
  /\ winner = None /\ pending_draws > 0
  /\ discard_pile # <<>>
  /\ \E c \in Range(hands[current_player]) : IsWild(c)
  /\ get_legal_actions(State, current_player) = <<DrawCard>>

\* what C9 says of a step that played a card
PlayCardBaseEffect(p, a) ==
  /\ \E i \in 1..Len(hands[p]) :
       /\ hands[p][i] = a.card
       /\ hands'[p] = RemoveAt(hands[p], i)
  /\ Len(hands'[p]) = Len(hands[p]) - 1
  /\ discard_pile' # <<>>
  /\ Last(discard_pile') = a.card
  /\ last_played_color' = IF a.card.value \in {"wild", "wild_draw_four"}
                          THEN a.chosen_color ELSE a.card.color

\* C9 as claimed: with at least 2 players, every PlayCard that returns,
\* whoever the player p, takes exactly one instance of the card from p's
\* hand and keeps p's other cards, makes the card the top of the discard
\* pile, and sets last_played_color to the card's color, or to chosen_color
\* for a wild.
PlayCardEffectAnyPlayer ==
  [][LET p == last_call'.player
         a == last_call'.action
     IN  (/\ winner = None
          /\ a.type = "PlayCard"
          /\ last_call'.raised = None
          /\ Len(player_order) >= 2)
         => PlayCardBaseEffect(p, a)]_vars

\* C9 amended: the same of every PlayCard by the current player.
PlayCardEffect ==
  [][LET p == last_call'.player
         a == last_call'.action
     IN  (/\ winner = None
          /\ a.type = "PlayCard"
          /\ last_call'.raised = None
          /\ p = current_player
          /\ Len(player_order) >= 2)
         => PlayCardBaseEffect(p, a)]_vars

\* C9 witness: in a game of two or more, the player to act played one of
\* two equal cards; the other is still in the hand and the played one is on
\* top of the discard pile.
PlayCardEffectWitness ==
  /\ winner = None
  /\ Len(player_order) >= 2
  /\ last_call.legal
  /\ last_call.raised = None
  /\ last_call.action.type = "PlayCard"
  /\ last_call.action.card \in Range(hands[last_call.player])
  /\ Last(discard_pile) = last_call.action.card
  /\ last_played_color = last_call.action.card.color

\* C10: a DrawCard by the current player p of a state with no winner draws
\* k cards, k = pending_draws if that is above 0 and 1 otherwise; when the
\* draw pile holds at least k cards, p's hand grows by the k cards at the
\* draw end, in the order drawn, pending_draws becomes 0, current_player
\* moves one step along player_order in the direction, and the discard pile,
\* direction, last_played_color, winner, player_order and the other hands
\* stay as they are.
DrawCardEffect ==
  [][LET p == last_call'.player
         k == IF pending_draws > 0 THEN pending_draws ELSE 1
         n == Len(player_order)
         idx == CHOOSE i \in 1..n : player_order[i] = current_player
     IN  (/\ winner = None
          /\ last_call'.action.type = "DrawCard"
          /\ p = current_player
          /\ Len(draw_pile) >= k)
         => (/\ last_call'.raised = None
             /\ hands'[p] = hands[p] \o
                  [j \in 1..k |-> draw_pile[Len(draw_pile) - j + 1]]
             /\ draw_pile' = SubSeq(draw_pile, 1, Len(draw_pile) - k)
             /\ pending_draws' = 0
             /\ current_player' = player_order[((idx - 1 + direction) % n) + 1]
             /\ discard_pile' = discard_pile
             /\ direction' = direction
             /\ last_played_color' = last_played_color
             /\ winner' = winner
             /\ player_order' = player_order
             /\ \A q \in DOMAIN hands \ {p} : hands'[q] = hands[q])]_vars

\* C10 witness: with the direction reversed, the player to act drew a
\* penalty of two cards.
DrawCardEffectWitness ==
  /\ history # <<>>
  /\ Last(history).event = "drew cards (penalty)"
  /\ Last(history).count = 2
  /\ direction = -1
  /\ Len(player_order) = 3
  /\ last_call.legal
  /\ pending_draws = 0

\* the 0-based position of the current player in player_order
PositionOfCurrent ==
  CHOOSE i \in 0..(Len(player_order) - 1) : player_order[i + 1] = current_player

\* the step played a card of the given value, by the player to act, who
\* keeps at least one card
NonWinningPlay(value) ==
  /\ winner = None
  /\ last_call'.action.type = "PlayCard"
  /\ last_call'.action.card.value = value
  /\ last_call'.raised = None
  /\ last_call'.player = current_player
  /\ Len(hands[current_player]) > 1

\* C11: a skip played by the current player, at position i of the n players,
\* that is not a winning play, makes player_order[(i + 2*direction) mod n]
\* the current player, keeps the direction, and changes no hand but the
\* actor's; with [p1,p2,p3], direction +1 and p1 to act it is p3's turn.
SkipEffect ==
  [][NonWinningPlay("skip") =>
       LET n == Len(player_order)
           i == PositionOfCurrent
       IN  /\ current_player' = player_order[((i + 2 * direction) % n) + 1]
           /\ direction' = direction
           /\ \A q \in DOMAIN hands \ {current_player} : hands'[q] = hands[q]
           /\ (player_order = <<"p1", "p2", "p3">> /\ direction = 1
                 /\ current_player = "p1") => current_player' = "p3"]_vars

\* C11 witness: p1 of [p1,p2,p3] played a skip with direction +1 and it is
\* p3's turn; p1 still holds a card.
SkipEffectWitness ==
  /\ player_order = <<"p1", "p2", "p3">>
  /\ direction = 1
  /\ last_call.player = "p1"
  /\ last_call.raised = None
  /\ last_call.action.type = "PlayCard"
  /\ last_call.action.card.value = "skip"
  /\ Last(history).event = "played"
  /\ hands["p1"] # <<>>
  /\ current_player = "p3"
  /\ winner = None

CardsOfValue(hand, value) == {c \in Range(hand) : c.value = value}

\* C13: with [p1,p2] and p1 to act, a reverse played by p1 that is not a
\* winning play makes p2 the current player, and a skip played by p1 from the
\* same state, not a winning play either, leaves the same player to act.
ReverseEqualsSkipTwoPlayers ==
  (/\ player_order = <<"p1", "p2">>
   /\ current_player = "p1"
   /\ winner = None
   /\ Len(hands["p1"]) > 1) =>
    \A r \in CardsOfValue(hands["p1"], "reverse") :
      \A s \in CardsOfValue(hands["p1"], "skip") :
        \A ro \in apply_action(State, "p1", PlayCard(r, None)) :
          \A so \in apply_action(State, "p1", PlayCard(s, None)) :
            /\ ro.raised = None /\ so.raised = None
            /\ ro.state.current_player = "p2"
            /\ so.state.current_player = ro.state.current_player

\* what C14 says of a non-winning play of a card that makes the next player
\* draw count cards
ForcedDrawEffect(count) ==
  LET n == Len(player_order)
      i == PositionOfCurrent
      p == current_player
      q == player_order[((i + direction) % n) + 1]
      \* the draw pile, and the discard pile under the played card
      supply == Len(draw_pile) + Len(discard_pile)
      k == IF count <= supply THEN count ELSE supply
  IN  /\ Len(hands'[q]) = Len(hands[q]) + k
      /\ SubSeq(hands'[q], 1, Len(hands[q])) = hands[q]
      /\ current_player' = player_order[((i + 2 * direction) % n) + 1]
      /\ current_player' # q
      /\ pending_draws' = pending_draws
      /\ direction' = direction
      /\ \A t \in DOMAIN hands \ {p, q} : hands'[t] = hands[t]

\* C14: with at least 2 players, a draw_two (wild_draw_four) played by the
\* current player at position i, not a winning play, makes the player at
\* position (i + direction) mod n draw exactly 2 (4) cards, or as many as
\* the draw pile and the reshuffled discard pile can supply if that is
\* fewer, and makes player_order[(i + 2*direction) mod n] the current
\* player, so the player who drew does not get the turn; pending_draws and
\* direction stay, and no third player's hand changes.
ForcedDraws ==
  [][Len(player_order) >= 2 =>
       /\ NonWinningPlay("draw_two") => ForcedDrawEffect(2)
       /\ NonWinningPlay("wild_draw_four") => ForcedDrawEffect(4)]_vars

\* C14 witness: of three players one played a wild_draw_four; the next
\* player drew four cards, the discard pile was reshuffled for them and
\* both piles were used up.
ForcedDrawsWitness ==
  /\ Len(player_order) = 3
  /\ winner = None
  /\ last_call.raised = None
  /\ last_call.action.type = "PlayCard"
  /\ last_call.action.card.value = "wild_draw_four"
  /\ last_call.legal
  /\ draw_pile = <<>>
  /\ discard_pile = <<last_call.action.card>>
  /\ \E q \in DOMAIN hands \ {last_call.player, current_player} :
       Len(hands[q]) >= 5

\* the two sequences hold the same cards, each as many times
SameCards(s, t) ==
  /\ Len(s) = Len(t)
  /\ \A c \in Range(s) \cup Range(t) :
       Cardinality({i \in 1..Len(s) : s[i] = c})
         = Cardinality({i \in 1..Len(t) : t[i] = c})

\* what C15 says of a step in which player q is to draw k cards, the draw
\* pile holds fewer than k, and pile is the discard pile at that moment:
\* the cards of the draw pile are taken first; then, if pile has 2 cards or
\* more, the cards under its top are the new draw pile, in some order, and
\* the next cards are taken from it, and if it has fewer both piles stay and
\* nothing more is taken
ReshuffleEffect(q, k, pile) ==
  LET len == Len(draw_pile)
      got == SubSeq(hands'[q], Len(hands[q]) + 1, Len(hands'[q]))
      supply == len + Len(pile) - 1
  IN  /\ SubSeq(hands'[q], 1, Len(hands[q])) = hands[q]
      /\ Len(got) >= len
      /\ \A j \in 1..len : got[j] = draw_pile[len - j + 1]
      /\ IF Len(pile) >= 2
         THEN /\ discard_pile' = <<Last(pile)>>
              /\ SameCards(draw_pile' \o got, draw_pile \o Front(pile))
              /\ Len(got) = IF k <= supply THEN k ELSE supply
              /\ Len(got) > len
         ELSE /\ Len(got) = len
              /\ draw_pile' = <<>>
              /\ discard_pile' = pile
      /\ \A t \in DOMAIN hands \ {q, last_call'.player} : hands'[t] = hands[t]
      /\ CardsInHands(hands') + Len(discard_pile') + Len(draw_pile') = TotalCards

\* C15: when apply_action has to draw a card and the draw pile is empty
\* (from the start, or after the cards before were drawn), a discard pile of
\* 2 cards or more gives all its cards but the top to the draw pile, as a
\* permutation of them, keeps exactly its top, and the card is drawn from
\* the new pile; with a discard pile of 1 card or none the draw takes
\* nothing, no hand grows, both piles stay, and the turn still advances.
\* The number of cards is the same after as before.
ReshuffleRule ==
  [][LET n == Len(player_order)
         i == PositionOfCurrent
         p == current_player
         k == IF pending_draws > 0 THEN pending_draws ELSE 1
         Forced(value, count) ==
           (NonWinningPlay(value) /\ n >= 2 /\ Len(draw_pile) < count) =>
             /\ ReshuffleEffect(player_order[((i + direction) % n) + 1], count,
                                Append(discard_pile, last_call'.action.card))
             /\ current_player' = player_order[((i + 2 * direction) % n) + 1]
     IN  /\ (/\ winner = None
             /\ last_call'.action.type = "DrawCard"
             /\ last_call'.player = p
             /\ Len(draw_pile) < k) =>
               /\ last_call'.raised = None
               /\ ReshuffleEffect(p, k, discard_pile)
               /\ current_player' = player_order[((i + direction) % n) + 1]
         /\ Forced("draw_two", 2)
         /\ Forced("wild_draw_four", 4)]_vars

\* C15 witness: a draw_two was played on a discard pile of three cards with
\* the draw pile empty: the three cards were reshuffled into the draw pile,
\* the next player drew two of them, one is left, and the discard pile is the
\* draw_two alone.
ReshuffleRuleWitness ==
  /\ winner = None
  /\ last_call.raised = None
  /\ last_call.legal
  /\ last_call.action.type = "PlayCard"
  /\ last_call.action.card.value = "draw_two"
  /\ discard_pile = <<last_call.action.card>>
  /\ Len(draw_pile) = 1
  /\ Len(player_order) >= 2

\* C16: on a state with no winner and for a player who has a hand,
\* apply_action raises exactly when the action is a PlayCard of a wild or
\* wild_draw_four without chosen_color, or a PlayCard of a card that is not
\* in that player's hand; a call that raises gives no new state, the caller
\* is left with the state it passed; a DrawCard never raises.
ActionErrors ==
  [][LET p == last_call'.player
         a == last_call'.action
     IN  (winner = None /\ p \in DOMAIN hands) =>
           /\ (last_call'.raised # None) <=>
                /\ a.type = "PlayCard"
                /\ \/ (a.card.value \in {"wild", "wild_draw_four"}
                         /\ a.chosen_color = None)
                   \/ ~ \E j \in 1..Len(hands[p]) :
                          /\ hands[p][j].color = a.card.color
                          /\ hands[p][j].value = a.card.value
           /\ last_call'.raised # None => StateNext = State
           /\ a.type = "DrawCard" => last_call'.raised = None]_vars

\* C16 witness: the player to act holds a wild and played it without a
\* chosen_color; the call raised and the state is the one before.
ActionErrorsWitness ==
  /\ winner = None
  /\ last_call.player = current_player
  /\ last_call.action.type = "PlayCard"
  /\ last_call.action.chosen_color = None
  /\ last_call.action.card \in Range(hands[current_player])
  /\ IsWild(last_call.action.card)
  /\ last_call.raised = "ValueError: Wild card requires chosen_color"
  /\ history = <<>>

\* a sequence read backwards
Reversed(s) == [j \in 1..Len(s) |-> s[Len(s) - j + 1]]

\* s with another order or with other cards, of the same length
OtherCards(s, way) ==
  IF way = 1 THEN Reversed(s)
  ELSE IF way = 2 THEN [j \in 1..Len(s) |-> Card("green", "9")]
  ELSE [j \in 1..Len(s) |-> Card(None, "wild")]

\* the states that are as the current one for player p: p's hand, the size
\* of every hand, the discard pile and every other field are the same, the
\* cards of the other hands and the draw pile may be others
SameFor(p) ==
  {GameState([q \in DOMAIN hands |->
                IF q = p THEN hands[q] ELSE OtherCards(hands[q], v.way)],
             discard_pile, v.draw, current_player, direction, last_played_color,
             pending_draws, winner, player_order, history) :
     v \in {[way |-> 1, draw |-> <<>>],
            [way |-> 2, draw |-> Reversed(draw_pile)],
            [way |-> 3, draw |-> Append(draw_pile, Card("green", "9"))]}}

\* C17: PlayerView.from_state(state, p) is the same for any two states that
\* agree on p's hand, the discard pile, the size of every hand,
\* current_player, direction, last_played_color, pending_draws, winner,
\* player_order and history, whatever the cards of the other hands and
\* whatever the draw pile.
HiddenInformation ==
  \A p \in CallerArgs :
    LET view == from_state(State, p)
    IN  \A other \in SameFor(p) : from_state(other, p) = view

\* C17 witness: in a game of three, after a call, a state with other cards
\* in every other hand and another draw pile gives p1 the same view, which
\* shows p1's hand and every hand's size.
HiddenInformationWitness ==
  /\ Len(player_order) = 3
  /\ history # <<>>
  /\ draw_pile # <<>>
  /\ \E other \in SameFor("p1") :
       /\ other.draw_pile # draw_pile
       /\ \A q \in DOMAIN hands \ {"p1"} :
            other.hands[q] # hands[q] /\ Len(other.hands[q]) = Len(hands[q])
       /\ from_state(other, "p1") = from_state(State, "p1")
  /\ from_state(State, "p1").my_hand = hands["p1"]
  /\ \A q \in DOMAIN hands :
       from_state(State, "p1").num_cards_per_player[q] = Len(hands[q])

HistoryAppendOnly ==
  /\ history = <<>>
  /\ [][IF winner = None /\ last_call'.raised = None
        THEN /\ Len(history') = Len(history) + 1
             /\ SubSeq(history', 1, Len(history)) = history
             /\ Last(history').player = last_call'.player
             /\ Last(history').event \in
                  IF last_call'.action.type = "PlayCard"
                  THEN {"played", "played and WON!"}
                  ELSE {"drew a card", "drew cards (penalty)"}
        ELSE history' = history]_vars

\* C19 witness: three actions were applied, a play and then a draw among
\* them, and the history has their three entries in that order.
HistoryAppendOnlyWitness ==
  /\ Len(history) = 3
  /\ history[2].event = "played"
  /\ history[3].event = "drew a card"
  /\ history[2].player # history[3].player
  /\ last_call.player = history[3].player
  /\ last_call.action.type = "DrawCard"

\* C20: for n players, 2 <= n <= 14, the state init_game returns gives
\* every player exactly 7 cards, has exactly 1 card on the discard pile,
\* not a wild, and 108 - 7n - 1 cards in the draw pile; current_player is
\* the first id, direction +1, pending_draws 0, winner none, history empty,
\* and last_played_color the color of the discard card.
InitialState ==
  LET n == Len(player_order)
  IN  (last_call = NoCall /\ 2 <= n /\ n <= 14) =>
        /\ DOMAIN hands = Range(player_order)
        /\ \A pid \in DOMAIN hands : Len(hands[pid]) = 7
        /\ Len(discard_pile) = 1
        /\ discard_pile[1].value \notin {"wild", "wild_draw_four"}
        /\ Len(draw_pile) = 108 - 7 * n - 1
        /\ current_player = player_order[1]
        /\ direction = 1
        /\ pending_draws = 0
        /\ winner = None
        /\ history = <<>>
        /\ last_played_color = discard_pile[1].color

\* C20 witness: a game of 14 players whose deck had six wilds at the draw
\* end after the deal: the discard card is the colored card under them and
\* the six wilds are in the draw pile of 9 cards.
InitialStateWitness ==
  /\ last_call = NoCall
  /\ Len(player_order) = 14
  /\ Len(discard_pile) = 1
  /\ ~IsWild(discard_pile[1])
  /\ Len(draw_pile) = 9
  /\ Cardinality({j \in 1..Len(draw_pile) : IsWild(draw_pile[j])}) = 6
  /\ IsWild(Last(draw_pile))
  /\ \A pid \in DOMAIN hands : Len(hands[pid]) = 7

\* how many cards of a list have the color and the value
CountCard(cards, color, value) ==
  Cardinality({i \in 1..Len(cards) : cards[i] = [color |-> color, value |-> value]})

\* how many cards of a list have the color
CountColor(cards, color) ==
  Cardinality({i \in 1..Len(cards) : cards[i].color = color})

\* C21: the list create_deck returns, for every seed and for no seed, has
\* exactly 108 cards: for each of the 4 colors one "0" and two each of "1"
\* to "9", "skip", "reverse" and "draw_two", and 4 "wild" and 4
\* "wild_draw_four"; the shuffle only permutes them.
DeckComposition ==
  DeckCreated =>
    /\ Len(draw_pile) = 108
    /\ \A c \in {"red", "blue", "green", "yellow"} :
         /\ CountCard(draw_pile, c, "0") = 1
         /\ \A v \in {"1", "2", "3", "4", "5", "6", "7", "8", "9",
                      "skip", "reverse", "draw_two"} :
              CountCard(draw_pile, c, v) = 2
    /\ CountCard(draw_pile, None, "wild") = 4
    /\ CountCard(draw_pile, None, "wild_draw_four") = 4

\* C21 witness: a deck that was shuffled: it starts with a wild and does
\* not end with one.
DeckCompositionWitness ==
  /\ DeckCreated
  /\ IsWild(draw_pile[1])
  /\ ~IsWild(draw_pile[108])
  /\ CountCard(draw_pile, None, "wild_draw_four") = 4

max_turns == 1000

MaxRunSeed == 0

MaxAgentCalls == 2

\* the numbers of agents a run is started with
RunCounts == {54}

RunSeeds == 0..MaxRunSeed

\* get_action returned None
ReturnsNone == [type |-> "None", card |-> Card(None, None), chosen_color |-> None]

\* what agent.get_action(player_view, legal, pid) can return
AgentReturns(legal) ==
  IF current_player = player_order[1] /\ runner.calls < MaxAgentCalls
    THEN Range(legal) \cup {ReturnsNone}
    ELSE {ReturnsNone}

\* a substitution that takes the first legal action
SubstituteFirstLegal(action, legal) ==
  IF action = ReturnsNone THEN legal[1] ELSE action

\* if action is None: the DrawCard of legal, or legal[0] when it has none
Substitute(action, legal) ==
  IF action = ReturnsNone
    THEN IF DrawCard \in Range(legal) THEN DrawCard ELSE legal[1]
    ELSE action

\* the loop goes on: the while condition holds and legal is not empty
LoopGoesOn ==
  /\ winner = None
  /\ runner.num_turns < max_turns
  /\ get_legal_actions(State, current_player) # <<>>

\* player_ids and init_game, num_turns = 0
RunInit ==
  \E n \in RunCounts, seed \in RunSeeds :
    /\ SetInput(init_game(Players(n), seed))
    /\ last_call = NoCall
    /\ runner = NoRun

\* one iteration of the while loop; an exception of apply_action ends the run
RunTurn ==
  /\ ~runner.done
  /\ LoopGoesOn
  /\ LET pid == current_player
         legal == get_legal_actions(State, pid)
     IN  \E answer \in AgentReturns(legal) :
           /\ Call(pid, Substitute(answer, legal))
           /\ runner' = [runner EXCEPT
                 !.num_turns = IF last_call'.raised = None THEN @ + 1 ELSE @,
                 !.calls = IF pid = player_order[1] THEN @ + 1 ELSE @,
                 !.answered = IF answer = ReturnsNone THEN "None" ELSE "action",
                 !.raised = last_call'.raised,
                 !.done = last_call'.raised # None]

\* the loop is left and GameResult(winner = state.winner, ...) returned
RunReturn ==
  /\ ~runner.done
  /\ ~LoopGoesOn
  /\ runner' = [runner EXCEPT !.done = TRUE, !.winner = winner]
  /\ SetState(State)
  /\ UNCHANGED last_call

RunNext == RunTurn \/ RunReturn

\* the loop is sequential code: its next step is always taken
RunSpec == RunInit /\ [][RunNext]_vars /\ WF_vars(RunNext)

\* what holds of the locals of run at every point of it
DriverLoopSafe ==
  /\ runner.num_turns <= max_turns
  /\ runner.raised = None
  /\ runner.done =>
       /\ winner # None \/ runner.num_turns = max_turns
       /\ runner.winner = winner
       /\ runner.winner = None <=> \A p \in DOMAIN hands : hands[p] # <<>>

\* what holds of every step of run
DriverLoopStep ==
  /\ ~runner.done /\ (winner # None \/ runner.num_turns >= max_turns) =>
       runner'.done /\ State' = State
  /\ runner'.num_turns # runner.num_turns =>
       /\ runner'.num_turns = runner.num_turns + 1
       /\ last_call'.player = current_player
       /\ last_call'.legal
       /\ last_call'.raised = None
       /\ State' \in {out.state : out \in apply_action(State, current_player, last_call'.action)}
       /\ runner'.answered = "None" => last_call'.action = DrawCard
  /\ runner'.num_turns = runner.num_turns => State' = State

\* C24: with agents that always return, GameRunner.run terminates and applies
\* at most 1000 actions; it stops as soon as state.winner is set or 1000 turns
\* were made and never for lack of a legal action; every action is applied
\* for state.current_player; DrawCard stands in when the agent returns None;
\* the result's winner is None exactly when no player's hand is empty.
DriverLoop ==
  /\ []DriverLoopSafe
  /\ [][DriverLoopStep]_vars
  /\ <>(runner.done)

\* a run that reached the cap of 1000 turns with nobody winning, the last
\* agent having returned None
DriverLoopWitness ==
  /\ runner.done
  /\ runner.num_turns = max_turns
  /\ runner.winner = None
  /\ runner.answered = "None"
  /\ last_call.action = DrawCard

\* the cards init_game's deal leaves of a deck, for n players
AfterDeal(cards, n) ==
  SubSeq(cards, 1, Len(cards) - (IF 7 * n < Len(cards) THEN 7 * n ELSE Len(cards)))

\* how many wild cards lie at the draw end of a list
WildsAtDrawEnd(cards) ==
  CHOOSE k \in 0..Len(cards) :
    /\ \A i \in (Len(cards) - k + 1)..Len(cards) : IsWild(cards[i])
    /\ k = Len(cards) \/ ~IsWild(cards[Len(cards) - k])

\* C25: when init_game meets wild cards at the draw end before the first
\* non-wild card, the returned draw_pile is the untouched remainder followed,
\* at its draw end, by those wild cards in the order they had in the deck:
\* the wild that was nearest the draw end is still the first one drawn.
InitialWildOrder ==
  [][DeckCreated =>
       LET rest == AfterDeal(draw_pile, Len(player_order))
           k == WildsAtDrawEnd(rest)
           m == Len(rest)
       IN  k > 0 /\ k < m =>
             draw_pile' = SubSeq(rest, 1, m - k - 1) \o SubSeq(rest, m - k + 1, m)]_vars

\* C26: init_game deals one card to each player in player_ids order per
\* pass, for 7 passes: with n players the j-th card (j = 0..6) of the hand of
\* the player at index i is the (j*n + i + 1)-th card taken from the draw end
\* of the shuffled deck, as long as the deck has that many cards; so with two
\* or more players no hand holds two cards that were next to each other.
RoundRobinDeal ==
  [][DeckCreated =>
       LET n == Len(player_order)
           size == Len(draw_pile)
       IN  \A i \in 0..(n - 1) :
             LET hand == hands'[player_order[i + 1]]
             IN  /\ \A j \in 0..6 :
                      j * n + i + 1 <= size <=>  j + 1 \in DOMAIN hand
                 /\ \A j \in 0..6 :
                      j + 1 \in DOMAIN hand =>
                        hand[j + 1] = draw_pile[size - (j * n + i)]
                 /\ Len(hand) <= 7]_vars

\* three players were dealt from the deck of seed 0, which create_deck leaves
\* in the order it was built: the second player holds the 2nd, 5th, 8th, ...
\* card from the draw end
RoundRobinDealWitness ==
  /\ ~DeckCreated
  /\ last_call = NoCall
  /\ Len(player_order) = 3
  /\ hands[player_order[2]] = [j \in 1..7 |-> UnshuffledDeck[108 - (3 * (j - 1) + 1)]]

\* last_played_color agrees with the top of the discard pile
ColorOfTop ==
  discard_pile # <<>> =>
    LET top == Last(discard_pile)
    IN  /\ ~IsWild(top) => last_played_color = top.color
        /\ IsWild(top) => last_played_color \in Colors

\* a returned play of a wild sets the chosen color, a returned draw keeps
\* last_played_color, reshuffle or not
ColorOfTopStep ==
  last_call' # last_call /\ last_call'.raised = None /\ winner = None =>
    /\ last_call'.action.type = "DrawCard" => last_played_color' = last_played_color
    /\ last_call'.action.type = "PlayCard" /\ IsWild(last_call'.action.card) =>
         last_played_color' = last_call'.action.chosen_color

\* C27: in every state reached from init_game by apply_action calls that
\* returned, a top discard card that is not a wild has last_played_color as
\* its own color, and above a wild top card last_played_color is a color,
\* the one chosen when the wild was played; draws, with or without a
\* reshuffle, leave last_played_color as it was.
EffectiveColorInvariant ==
  /\ []ColorOfTop
  /\ [][ColorOfTopStep]_vars

\* a card that is not a wild was played with a chosen_color that is not its
\* own color, by a call that returned
EffectiveColorInvariantWitness ==
  /\ last_call.action.type = "PlayCard"
  /\ last_call.raised = None
  /\ ~IsWild(last_call.action.card)
  /\ last_call.action.chosen_color \in Colors \ {last_call.action.card.color}
  /\ Last(discard_pile) = last_call.action.card
  /\ Len(history) = 2

NoPendingDraws ==
  /\ pending_draws = 0
  /\ \A k \in 1..Len(history) : history[k].event # "drew cards (penalty)"
  /\ get_legal_actions(State, current_player) = <<DrawCard>> =>
       \A i \in 1..Len(hands[current_player]) :
         /\ discard_pile # <<>>
         /\ ~IsWild(hands[current_player][i])
         /\ hands[current_player][i].color # (Last(discard_pile)).color
         /\ hands[current_player][i].value # (Last(discard_pile)).value

MaxEndTurns == 8

MaxEndDraws == 1

\* the numbers of players of these games
EndCounts == {1, 2, 3}

EndInit ==
  \E n \in EndCounts, seed \in Seeds :
    /\ SetInput(init_game(Players(n), seed))
    /\ last_call = NoCall
    /\ runner = NoRun

\* the game goes on for at most MaxEndTurns recorded events
EndReady == Len(history) < MaxEndTurns /\ last_call.raised = None

EndNext ==
  \/ PlayCardCall(EndReady)
  \/ DrawCardCall(EndReady /\ Len(history) < MaxEndDraws)

EndSpec == EndInit /\ [][EndNext]_vars

\* C30: in every state reached from init_game with 1 to 15 players by
\* apply_action calls that returned, winner is p exactly when the hand of p is
\* empty; at most one hand is empty; and while winner is None every player
\* holds at least one card.
WinnerConsistency ==
  Len(player_order) \in 1..15 =>
    /\ \A p \in DOMAIN hands : winner = p <=> hands[p] = <<>>
    /\ Cardinality({p \in DOMAIN hands : hands[p] = <<>>}) <= 1
    /\ winner = None => \A p \in DOMAIN hands : Len(hands[p]) >= 1

\* a game of two players was won, and a call was made after the win
WinnerConsistencyWitness ==
  /\ Len(player_order) = 2
  /\ winner = player_order[1]
  /\ hands[winner] = <<>>
  /\ hands[player_order[2]] # <<>>
  /\ Last(history).event = "played and WON!"
  /\ last_call.player = Outsider
  /\ last_call.raised = None

\* C31: in every state reached from init_game with 1 to 15 players by
\* apply_action calls that returned, the discard pile holds at least one
\* card: top_discard is a card, get_legal_actions does not take its branch
\* for an empty discard pile, and _effective_color gives a color, never its
\* "No card on discard pile" error.
DiscardNeverEmpty ==
  Len(player_order) \in 1..15 =>
    /\ Len(discard_pile) >= 1
    /\ HasTop(State)
    /\ top_discard(State) = discard_pile[Len(discard_pile)]
    /\ top_discard(State).value # None
    /\ _effective_color(State) \in Colors

\* a game of 15 players whose draw pile ran out: a draw_two or
\* wild_draw_four was played, the discard pile was reshuffled for the cards
\* to draw, and only its top card is left
DiscardNeverEmptyWitness ==
  /\ Len(player_order) = 15
  /\ last_call.action.type = "PlayCard"
  /\ last_call.action.card.value \in {"draw_two", "wild_draw_four"}
  /\ last_call.raised = None
  /\ Len(history) >= 2
  /\ discard_pile = <<last_call.action.card>>
====
